---- MODULE Spec2Model ----
(***************************************************************************)
(* A model of the GELF log-shipping client (package gelflogger): the       *)
(* Logger session (connect / ensureConnection / Log), the GelfWriter       *)
(* adapter (Write), the message encoder (formatGELFMessage) and the        *)
(* zerolog field processor, driven by several goroutines that share one    *)
(* Logger, against a collector that may stop, restart and drop             *)
(* connections.                                                            *)
(***************************************************************************)
EXTENDS Integers, Sequences, FiniteSets, TLC

\* Number of goroutines that share the one Logger.
NumThreads == 2

Threads == 1..NumThreads

\* The nil connection handle / the unlocked mutex.
Nil == 0

(***************************************************************************)
(* JSON values.  A value decoded by encoding/json is a string, a float64   *)
(* or a bool; the field processor adds Go ints.  Every value is a record   *)
(* of the same shape: t is the Go dynamic type, s the text of a string,    *)
(* n the number (a float64 is kept in thousandths, so that the division    *)
(* by 1000 of a millisecond time stays exact; a bool is 1 or 0), doc the   *)
(* JSON object whose serialization a string holds (string(fullMessage)).   *)
(***************************************************************************)
EmptyMap == [k \in {} |-> 0]

Str(s) == [t |-> "string", s |-> s, n |-> 0, doc |-> EmptyMap]

Float(thousandths) == [t |-> "float64", s |-> "", n |-> thousandths, doc |-> EmptyMap]

Bool(b) == [t |-> "bool", s |-> "", n |-> IF b THEN 1 ELSE 0, doc |-> EmptyMap]

GoInt(i) == [t |-> "int", s |-> "", n |-> i, doc |-> EmptyMap]

\* Variant: the text is dropped.
JsonTextEmpty(doc) == [t |-> "string", s |-> "", n |-> 0, doc |-> EmptyMap]

\* string(b) for a byte slice b holding the serialization of doc.
JsonText(doc) == [t |-> "string", s |-> "", n |-> 0, doc |-> doc]

MapSet(m, k, v) == (k :> v) @@ m

\* Variant: the message is never removed.
MapDeleteButMessage(m, k) == [x \in (DOMAIN m) \ ({k} \ {"message"}) |-> m[x]]

MapDelete(m, k) == [x \in (DOMAIN m) \ {k} |-> m[x]]

(***************************************************************************)
(* Lengths of serialized JSON, as encoding/json writes it (no spaces).     *)
(***************************************************************************)
RECURSIVE Digits(_)
Digits(i) == IF i < 10 THEN 1 ELSE 1 + Digits(i \div 10)

FracDigits(f) ==
    IF f = 0 THEN 0
    ELSE IF f % 100 = 0 THEN 2
    ELSE IF f % 10 = 0 THEN 3
    ELSE 4

FloatLen(thousandths) == Digits(thousandths \div 1000) + FracDigits(thousandths % 1000)

PlainLen(v) ==
    CASE v.t = "string"  -> Len(v.s) + 2
      [] v.t = "float64" -> FloatLen(v.n)
      [] v.t = "int"     -> Digits(v.n)
      [] v.t = "bool"    -> IF v.n = 1 THEN 4 ELSE 5

RECURSIVE SumFn(_)
SumFn(f) ==
    IF DOMAIN f = {} THEN 0
    ELSE LET k == CHOOSE x \in DOMAIN f : TRUE
         IN  f[k] + SumFn([x \in (DOMAIN f) \ {k} |-> f[x]])

Commas(m) == IF DOMAIN m = {} THEN 0 ELSE Cardinality(DOMAIN m) - 1

PlainEntryLen(k, v) == Len(k) + 3 + PlainLen(v)

\* Length of the serialization of an object of plain values.
PlainJsonLen(m) == 2 + SumFn([k \in DOMAIN m |-> PlainEntryLen(k, m[k])]) + Commas(m)

\* The double quotes of that serialization, each one escaped inside a string.
EntryQuotes(k, v) == 2 + (IF v.t = "string" THEN 2 ELSE 0)

ValueLen(v) ==
    IF v.t = "string" /\ v.doc # EmptyMap
    THEN 2 + PlainJsonLen(v.doc) + SumFn([k \in DOMAIN v.doc |-> EntryQuotes(k, v.doc[k])])
    ELSE PlainLen(v)

EntryLen(k, v) == Len(k) + 3 + ValueLen(v)

JsonLen(m) == 2 + SumFn([k \in DOMAIN m |-> EntryLen(k, m[k])]) + Commas(m)

(***************************************************************************)
(* Byte buffers holding JSON text: the length in bytes, whether the text   *)
(* parses as a JSON object, and the object it parses to.                   *)
(***************************************************************************)
NoBytes == [len |-> 0, valid |-> FALSE, doc |-> EmptyMap]

\* json.Marshal of a map.
Marshal(m) == [len |-> JsonLen(m), valid |-> TRUE, doc |-> m]

\* The buffers handed to GelfWriter.Write: those of TestWriteWithMockServer
\* (with the spaces they contain), events with every reserved field, and an
\* event without a message.
InvalidJsonLen == 12
NonStringMessageLen == 16
ValidMessageLen == 52
InvalidTimeLen == 48

Inputs ==
    { [len |-> InvalidJsonLen, valid |-> FALSE, doc |-> EmptyMap],
      [len |-> NonStringMessageLen, valid |-> TRUE,
       doc |-> ("message" :> Float(1234000))],
      [len |-> ValidMessageLen, valid |-> TRUE,
       doc |-> ("message" :> Str("info") @@ "test_field" :> Str("TEST FIELD VALUE"))],
      [len |-> InvalidTimeLen, valid |-> TRUE,
       doc |-> ("message" :> Str("info") @@ "time" :> Str("2024-01-01T01:01:01"))],
      Marshal("level" :> Str("debug") @@ "time" :> Float(1500000)
              @@ "message" :> Str("m") @@ "ok" :> Bool(TRUE)),
      Marshal("message" :> Str("m") @@ "level" :> Float(5000)),
      Marshal("level" :> Str("info")) }

\* time.Now().UnixMilli(), in thousandths of a millisecond.
Clock == {1700000000, 1700250000}

\* os.Hostname()
Hostname == "app1"

(***************************************************************************)
(* Level translator (package zerologger).                                  *)
(***************************************************************************)
\* zerolog.ParseLevel: the level a name parses to, "" when it is no level name.
ParseLevel(level) ==
    IF level \in {"trace", "debug", "info", "warn", "error", "fatal", "panic"}
    THEN level
    ELSE ""

LogLevelMap ==
    ("debug" :> 7) @@ ("info" :> 6) @@ ("warn" :> 4)
    @@ ("error" :> 3) @@ ("fatal" :> 2) @@ ("panic" :> 1)

DefaultLevel == 6

\* Variant: a level without an entry in the table falls through to 0.
ConvertZerologLevelNoDefault(level) ==
    IF level \in DOMAIN LogLevelMap THEN LogLevelMap[level] ELSE 0

ConvertZerologLevelToGraylog(level) ==
    LET parsedLevel == ParseLevel(level)
    IN  IF parsedLevel = "" THEN DefaultLevel
        ELSE IF parsedLevel \in DOMAIN LogLevelMap THEN LogLevelMap[parsedLevel]
        ELSE DefaultLevel

(***************************************************************************)
(* Level translator (package zaplogger).                                   *)
(***************************************************************************)
\* zapcore.ParseLevel: the level a name parses to (the empty name is info),
\* "" when it is no level name.
ZapParseLevel(level) ==
    IF level \in {"debug", "info", "warn", "error", "dpanic", "panic", "fatal"}
    THEN level
    ELSE IF level = "" THEN "info"
    ELSE ""

ZapLogLevelMap ==
    ("debug" :> 7) @@ ("info" :> 6) @@ ("warn" :> 4) @@ ("error" :> 3)
    @@ ("dpanic" :> 2) @@ ("panic" :> 1) @@ ("fatal" :> 0)

ConvertZapLogLevelToGraylog(level) ==
    LET parsedLevel == ZapParseLevel(level)
    IN  IF parsedLevel = "" THEN DefaultLevel
        ELSE IF parsedLevel \in DOMAIN ZapLogLevelMap THEN ZapLogLevelMap[parsedLevel]
        ELSE DefaultLevel

(***************************************************************************)
(* Field processor.  The result says how the call ended ("ok", "error",    *)
(* or "panic" for the failed type assertion fields["level"].(string)),     *)
(* what it returned and what it left in the caller's map.                  *)
(***************************************************************************)
ProcessResult(outcome, level, ts, full, fields) ==
    [outcome |-> outcome, graylogLevel |-> level, glTimeStamp |-> ts,
     fullMessage |-> full, fields |-> fields]

\* Variant: the three fields are removed first and the remainder serialized.
ProcessZerologFieldsDeleteFirst(fields, now) ==
    LET f1 == IF "time" \in DOMAIN fields THEN fields
              ELSE MapSet(fields, "time", Float(now))
    IN  IF f1["time"].t # "float64"
        THEN ProcessResult("error", 0, 0, NoBytes, f1)
        ELSE
        LET f2 == IF "level" \in DOMAIN f1 THEN f1
                  ELSE MapSet(f1, "level", Str("info"))
        IN  IF f2["level"].t # "string"
            THEN ProcessResult("panic", 0, 0, NoBytes, f2)
            ELSE
            LET graylogLevel == ConvertZerologLevelToGraylog(f2["level"].s)
                f4 == MapDelete(MapDelete(MapDelete(f2, "level"), "time"), "message")
            IN  ProcessResult("ok", graylogLevel, f2["time"].n \div 1000, Marshal(f4), f4)

ProcessZerologFields(fields, now) ==
    LET f1 == IF "time" \in DOMAIN fields THEN fields
              ELSE MapSet(fields, "time", Float(now))
    IN  IF f1["time"].t # "float64"
        THEN ProcessResult("error", 0, 0, NoBytes, f1)
        ELSE
        LET f2 == IF "level" \in DOMAIN f1 THEN f1
                  ELSE MapSet(f1, "level", Str("info"))
        IN  IF f2["level"].t # "string"
            THEN ProcessResult("panic", 0, 0, NoBytes, f2)
            ELSE
            LET graylogLevel == ConvertZerologLevelToGraylog(f2["level"].s)
                glTimeStamp  == f2["time"].n \div 1000
                f3 == MapSet(f2, "level", GoInt(graylogLevel))
                fullMessage == Marshal(f3)
                f4 == MapDelete(MapDelete(MapDelete(f3, "level"), "time"), "message")
            IN  ProcessResult("ok", graylogLevel, glTimeStamp, fullMessage, f4)

\* Variant: time and level are defaulted before the time is checked.
ProcessZapLoggerFieldsDefaultsFirst(fields, now) ==
    LET f1 == IF "time" \in DOMAIN fields THEN fields
              ELSE MapSet(fields, "time", Float(now))
        f2 == IF "level" \in DOMAIN f1 THEN f1
              ELSE MapSet(f1, "level", Str("info"))
    IN  IF f2["time"].t # "float64"
        THEN ProcessResult("error", 0, 0, NoBytes, f2)
        ELSE IF f2["level"].t # "string"
        THEN ProcessResult("panic", 0, 0, NoBytes, f2)
        ELSE
        LET graylogLevel == ConvertZapLogLevelToGraylog(f2["level"].s)
            f3 == MapSet(f2, "level", GoInt(graylogLevel))
            f4 == MapDelete(MapDelete(MapDelete(f3, "level"), "time"), "message")
        IN  ProcessResult("ok", graylogLevel, f2["time"].n \div 1000, Marshal(f3), f4)

\* The field processor of package zaplogger.
ProcessZapLoggerFields(fields, now) ==
    LET f1 == IF "time" \in DOMAIN fields THEN fields
              ELSE MapSet(fields, "time", Float(now))
    IN  IF f1["time"].t # "float64"
        THEN ProcessResult("error", 0, 0, NoBytes, f1)
        ELSE
        LET f2 == IF "level" \in DOMAIN f1 THEN f1
                  ELSE MapSet(f1, "level", Str("info"))
        IN  IF f2["level"].t # "string"
            THEN ProcessResult("panic", 0, 0, NoBytes, f2)
            ELSE
            LET graylogLevel == ConvertZapLogLevelToGraylog(f2["level"].s)
                glTimeStamp  == f2["time"].n \div 1000
                f3 == MapSet(f2, "level", GoInt(graylogLevel))
                fullMessage == Marshal(f3)
                f4 == MapDelete(MapDelete(MapDelete(f3, "level"), "time"), "message")
            IN  ProcessResult("ok", graylogLevel, glTimeStamp, fullMessage, f4)

(***************************************************************************)
(* Message encoder.                                                        *)
(***************************************************************************)
\* Variant: a boolean is rendered as a digit.
FormatBoolAsDigit(v) == IF v.n = 1 THEN "1" ELSE "0"

\* strconv.FormatBool
FormatBool(v) == IF v.n = 1 THEN "true" ELSE "false"

\* Variant: the event's fields are copied under their own names.
GelfMsgUnprefixed(message, r, host) ==
    r.fields
    @@ ("version" :> Str("1.1")) @@ ("host" :> Str(host))
    @@ ("short_message" :> Str(message))
    @@ ("full_message" :> [t |-> "string", s |-> "", n |-> 0, doc |-> r.fullMessage.doc])
    @@ ("timestamp" :> Float(r.glTimeStamp))
    @@ ("level" :> GoInt(r.graylogLevel))

\* Variant: the timestamp is left in milliseconds.
GelfMsgMillis(message, r, host) ==
    [k \in {"_" \o x : x \in DOMAIN r.fields} |->
        LET x == CHOOSE y \in DOMAIN r.fields : "_" \o y = k
        IN  IF r.fields[x].t = "bool" THEN Str(FormatBool(r.fields[x])) ELSE r.fields[x]]
    @@ ("version" :> Str("1.1")) @@ ("host" :> Str(host))
    @@ ("short_message" :> Str(message))
    @@ ("full_message" :> JsonText(r.fullMessage.doc))
    @@ ("timestamp" :> Float(r.glTimeStamp * 1000))
    @@ ("level" :> GoInt(r.graylogLevel))

\* The wire record built from the processed fields (gelflogger.go 164-180).
GelfMsg(message, r, host) ==
    LET reserved ==
            ("version" :> Str("1.1")) @@ ("host" :> Str(host))
            @@ ("short_message" :> Str(message))
            @@ ("full_message" :> JsonText(r.fullMessage.doc))
            @@ ("timestamp" :> Float(r.glTimeStamp))
            @@ ("level" :> GoInt(r.graylogLevel))
        extra ==
            [k \in {"_" \o x : x \in DOMAIN r.fields} |->
                LET x == CHOOSE y \in DOMAIN r.fields : "_" \o y = k
                    v == r.fields[x]
                IN  IF v.t = "bool" THEN Str(FormatBool(v)) ELSE v]
    IN  extra @@ reserved

\* Variant: the error of the field processor is ignored.
formatGELFMessageIgnoringError(message, fields, host, now) ==
    LET r == ProcessZerologFields(fields, now)
    IN  IF r.outcome = "panic"
        THEN [outcome |-> r.outcome, bytes |-> NoBytes]
        ELSE [outcome |-> "ok", bytes |-> Marshal(GelfMsg(message, r, host))]

\* formatGELFMessage: the outcome and, when it is "ok", the encoded record.
formatGELFMessage(message, fields, host, now) ==
    LET r == ProcessZerologFields(fields, now)
    IN  IF r.outcome # "ok"
        THEN [outcome |-> r.outcome, bytes |-> NoBytes]
        ELSE [outcome |-> "ok", bytes |-> Marshal(GelfMsg(message, r, host))]

(***************************************************************************)
(* The state.                                                              *)
(*   logger     the *Logger NewLogger returned: "nil" or "ready"           *)
(*   useTLS     Logger.useTLS                                              *)
(*   conn       Logger.conn: Nil or the index in socks of a socket         *)
(*   connLock   Logger.connLock: Nil when unlocked, else the goroutine     *)
(*              whose Lock call locked it                                  *)
(*   pc         where each goroutine stands                                *)
(*   call       the locals of each goroutine's current (or last) call,     *)
(*              with what the call did so far: dial attempts, probe and    *)
(*              payload writes and their results                           *)
(*              and, for a direct call of the encoder, of a field          *)
(*              processor or of a level translator, its arguments (fields, *)
(*              now, level) and what it returned (gelf, proc, graylog);    *)
(*              for NewZapLogger and NewZeroLogger, the cores or writers   *)
(*              passed in (others) and those of the logger returned        *)
(*              (dests)                                                    *)
(*   result     what each goroutine's last call returned: the count and    *)
(*              error of Write, the *Logger (nil or not) and error of      *)
(*              NewLogger                                                  *)
(*   socks      every socket dialed so far: whether it is still open (no   *)
(*              Close is ever called on a net.Conn), whether the peer      *)
(*              still accepts writes, whether it is TLS-wrapped            *)
(*   reachable  whether the collector accepts new connections             *)
(*   crashed    the process died (a panic or a fatal runtime error)        *)
(***************************************************************************)
VARIABLES logger, useTLS, conn, connLock, pc, call, result, socks, reachable, crashed

vars == <<logger, useTLS, conn, connLock, pc, call, result, socks, reachable, crashed>>

\* More sockets than the goroutines can ever dial.
MaxSocks == 4

NoProc == ProcessResult("none", 0, 0, NoBytes, EmptyMap)

NoCall ==
    [op |-> "none", p |-> NoBytes, message |-> "", caller |-> "none",
     newConn |-> Nil, sock |-> Nil, probe |-> "none", dials |-> 0, dial |-> "none",
     pwrites |-> 0, w1 |-> "none", w2 |-> "none", gelf |-> NoBytes,
     fields |-> EmptyMap, now |-> 0, proc |-> NoProc, level |-> "", graylog |-> 0,
     others |-> << >>, dests |-> << >>]

NoResult == [n |-> 0, err |-> "", logger |-> FALSE]

Init ==
    /\ logger = "nil"
    /\ useTLS = FALSE
    /\ conn = Nil
    /\ connLock = Nil
    /\ pc = [t \in Threads |-> "idle"]
    /\ call = [t \in Threads |-> NoCall]
    /\ result = [t \in Threads |-> NoResult]
    /\ socks = << >>
    /\ reachable \in BOOLEAN
    /\ crashed = FALSE

\* Variant: Write reports the length of the re-encoded event.
WriteSuccessEncodedLength(p) == [n |-> JsonLen(p.doc), err |-> "", logger |-> FALSE]

\* Variant: Log reports an error although the payload write returned nil.
WriteSuccessAsError(p) == [n |-> 0, err |-> "ConnectionError", logger |-> FALSE]

\* The pair (n, err) GelfWriter.Write returns.
WriteSuccess(p) == [n |-> p.len, err |-> "", logger |-> FALSE]

\* Variant: Write swallows the error of a failed step.
WriteFailureSwallowed(err) == [n |-> 0, err |-> "", logger |-> FALSE]

WriteFailure(err) == [n |-> 0, err |-> err, logger |-> FALSE]

\* A call of goroutine t returns r.
Return(t, r) ==
    /\ pc' = [pc EXCEPT ![t] = "idle"]
    /\ result' = [result EXCEPT ![t] = r]

\* sync.Mutex.Unlock: unlocking an unlocked mutex is a fatal runtime error.
Unlock ==
    IF connLock # Nil
    THEN connLock' = Nil /\ crashed' = crashed
    ELSE connLock' = connLock /\ crashed' = TRUE

\* What a write on socket c may return: nil on a healthy connection; on a
\* broken one an error, or nil while the failure is not yet detected.
WriteOutcomes(c) == IF socks[c].up THEN {"ok"} ELSE {"ok", "fail"}

(***************************************************************************)
(* NewLogger                                                               *)
(***************************************************************************)
\* NewLogger builds the Logger and calls connect (gelflogger.go 61-64).
NewLoggerCall(t) ==
    /\ ~crashed
    /\ logger = "nil"
    /\ \A u \in Threads : pc[u] = "idle"
    /\ \E useTSL \in BOOLEAN : useTLS' = useTSL
    /\ conn' = Nil
    /\ connLock' = Nil
    /\ call' = [call EXCEPT ![t] = [NoCall EXCEPT !.op = "NewLogger", !.caller = "NewLogger"]]
    /\ pc' = [pc EXCEPT ![t] = "connect_dial"]
    /\ UNCHANGED <<logger, result, socks, reachable, crashed>>

(***************************************************************************)
(* NewZapLogger and NewZeroLogger                                          *)
(***************************************************************************)
\* The cores of the tee NewZapLogger builds from otherZapCores, a nil slice
\* being << >> (part_001 350-356).
ZapCores(otherZapCores) ==
    IF otherZapCores # << >> THEN <<"gelf">> ELSE otherZapCores

\* The writers of the MultiLevelWriter NewZeroLogger builds from
\* otherZeroLogWriter (zerologger.go 53-63).
ZeroLogWriters(otherZeroLogWriter) ==
    IF otherZeroLogWriter # << >> THEN <<"gelf">> ELSE otherZeroLogWriter

\* Where the logger a constructor returns writes to.
Destinations(op, others) ==
    CASE op = "NewZapLogger"  -> ZapCores(others)
      [] op = "NewZeroLogger" -> ZeroLogWriters(others)
      [] OTHER                -> << >>

\* The cores or writers a caller passes.
OtherDestinations == { << >>, <<"stdout">>, <<"stdout", "file">> }

\* NewZapLogger or NewZeroLogger up to the dial of NewLogger (part_001 339,
\* zerologger.go 47).
WrapperCall(t) ==
    /\ ~crashed
    /\ logger = "nil"
    /\ \A u \in Threads : pc[u] = "idle"
    /\ \E useTSL \in BOOLEAN : useTLS' = useTSL
    /\ logger' = logger
    /\ conn' = Nil
    /\ connLock' = Nil
    /\ \E op \in {"NewZapLogger", "NewZeroLogger"}, others \in OtherDestinations :
         call' = [call EXCEPT ![t] = [NoCall EXCEPT !.op = op, !.caller = "NewLogger",
                                                    !.others = others]]
    /\ pc' = [pc EXCEPT ![t] = "connect_dial"]
    /\ UNCHANGED <<result, socks, reachable, crashed>>

(***************************************************************************)
(* connect                                                                 *)
(***************************************************************************)
\* Variant: NewLogger dials again after a failed dial.
NewLoggerFailedRedial(t) == UNCHANGED <<logger, pc, result, connLock, crashed>>

\* connect returned an error to NewLogger: no Logger, the error (65-67).
NewLoggerFailed(t) ==
    /\ logger' = "nil"
    /\ Return(t, [n |-> 0, err |-> "ConnectionError", logger |-> FALSE])
    /\ UNCHANGED <<connLock, crashed>>

\* Variant: the reconnect is attempted again after a failed dial.
ReconnectFailedRedial(t) == UNCHANGED <<logger, pc, result, connLock, crashed>>

\* connect returned an error to ensureConnection or Log, which return it after
\* the deferred Unlock, and Write returns (0, err) (110-112, 118-120, 139-141,
\* 210-217).
ReconnectFailed(t) ==
    /\ Unlock
    /\ Return(t, WriteFailure("ConnectionError"))
    /\ UNCHANGED logger

\* dialer.Dial, with the TLS wrapping, and the early return of its error (73-92).
ConnectDial(t) ==
    /\ ~crashed
    /\ pc[t] = "connect_dial"
    /\ Len(socks) < MaxSocks
    /\ IF reachable
       THEN /\ socks' = Append(socks, [open |-> TRUE, up |-> TRUE, tls |-> useTLS])
            /\ call' = [call EXCEPT ![t].dials = @ + 1, ![t].dial = "ok",
                                    ![t].newConn = Len(socks) + 1]
            /\ pc' = [pc EXCEPT ![t] = "connect_lock"]
            /\ UNCHANGED <<logger, connLock, result, crashed>>
       ELSE /\ call' = [call EXCEPT ![t].dials = @ + 1, ![t].dial = "fail"]
            /\ IF call[t].caller = "NewLogger"
               THEN NewLoggerFailed(t)
               ELSE ReconnectFailed(t)
            /\ UNCHANGED socks
    /\ UNCHANGED <<useTLS, conn, reachable>>

\* l.connLock.Lock() in connect (94).
ConnectLock(t) ==
    /\ ~crashed
    /\ pc[t] = "connect_lock"
    /\ connLock = Nil
    /\ connLock' = t
    /\ pc' = [pc EXCEPT ![t] = "connect_assign"]
    /\ UNCHANGED <<logger, useTLS, conn, call, result, socks, reachable, crashed>>

\* Variant: the handle is cleared instead of assigned.
ConnectAssignNil(t) ==
    /\ ~crashed
    /\ pc[t] = "connect_assign"
    /\ conn' = Nil
    /\ pc' = [pc EXCEPT ![t] = "connect_unlock"]
    /\ UNCHANGED <<logger, useTLS, connLock, call, result, socks, reachable, crashed>>

\* l.conn = conn (95).
ConnectAssign(t) ==
    /\ ~crashed
    /\ pc[t] = "connect_assign"
    /\ conn' = call[t].newConn
    /\ pc' = [pc EXCEPT ![t] = "connect_unlock"]
    /\ UNCHANGED <<logger, useTLS, connLock, call, result, socks, reachable, crashed>>

\* l.connLock.Unlock() and return nil (96-97), then what the caller does with
\* the nil: NewLogger returns the Logger (68), around which NewZapLogger and
\* NewZeroLogger build theirs; ensureConnection returns (122,
\* 124) and its deferred Unlock finds the mutex unlocked; Log retries the
\* write (142).
ConnectUnlock(t) ==
    /\ ~crashed
    /\ pc[t] = "connect_unlock"
    /\ CASE call[t].caller = "NewLogger" ->
              /\ Unlock
              /\ logger' = "ready"
              /\ call' = [call EXCEPT ![t].dests = Destinations(call[t].op, call[t].others)]
              /\ Return(t, [n |-> 0, err |-> "", logger |-> TRUE])
         [] call[t].caller = "ensureConnection" ->
              /\ connLock' = Nil
              /\ crashed' = TRUE
              /\ pc' = [pc EXCEPT ![t] = "aborted"]
              /\ UNCHANGED <<logger, result, call>>
         [] OTHER ->
              /\ Unlock
              /\ pc' = [pc EXCEPT ![t] = "log_write"]
              /\ UNCHANGED <<logger, result, call>>
    /\ UNCHANGED <<useTLS, conn, socks, reachable>>

(***************************************************************************)
(* GelfWriter.Write                                                        *)
(***************************************************************************)
\* Variant: the message is taken whatever its type.
HasAnyMessage(doc) == "message" \in DOMAIN doc

\* logMsg["message"].(string)
HasStringMessage(doc) == "message" \in DOMAIN doc /\ doc["message"].t = "string"

\* Write up to the call of ensureConnection: json.Unmarshal and the
\* extraction of the message (197-209).
WriteCall(t) ==
    /\ ~crashed
    /\ logger = "ready"
    /\ pc[t] = "idle"
    /\ \E p \in Inputs :
         LET c == [NoCall EXCEPT !.op = "Write", !.p = p]
         IN  IF ~p.valid
             THEN /\ call' = [call EXCEPT ![t] = c]
                  /\ Return(t, WriteFailure("DecodeError"))
             ELSE IF ~HasStringMessage(p.doc)
             THEN /\ call' = [call EXCEPT ![t] = c]
                  /\ Return(t, WriteFailure("ValidationError"))
             ELSE /\ call' = [call EXCEPT ![t] = [c EXCEPT !.message = p.doc["message"].s]]
                  /\ pc' = [pc EXCEPT ![t] = "ensure_lock"]
                  /\ UNCHANGED result
    /\ UNCHANGED <<logger, useTLS, conn, connLock, socks, reachable, crashed>>

(***************************************************************************)
(* ensureConnection                                                        *)
(***************************************************************************)
\* l.connLock.Lock() (105).
EnsureLock(t) ==
    /\ ~crashed
    /\ pc[t] = "ensure_lock"
    /\ connLock = Nil
    /\ connLock' = t
    /\ pc' = [pc EXCEPT ![t] = "ensure_check"]
    /\ UNCHANGED <<logger, useTLS, conn, call, result, socks, reachable, crashed>>

\* if l.conn == nil: connect; else start the zero-length write (108-115).
EnsureCheck(t) ==
    /\ ~crashed
    /\ pc[t] = "ensure_check"
    /\ IF conn = Nil
       THEN /\ call' = [call EXCEPT ![t].caller = "ensureConnection"]
            /\ pc' = [pc EXCEPT ![t] = "connect_dial"]
       ELSE /\ call' = [call EXCEPT ![t].sock = conn]
            /\ pc' = [pc EXCEPT ![t] = "probe_wait"]
    /\ UNCHANGED <<logger, useTLS, conn, connLock, result, socks, reachable, crashed>>

\* The zero-length write returns: nil, and ensureConnection returns nil after
\* the deferred Unlock (122); or an error, and connect is called (116-117).
ProbeEnd(t) ==
    /\ ~crashed
    /\ pc[t] = "probe_wait"
    /\ \E r \in WriteOutcomes(call[t].sock) :
         IF r = "ok"
         THEN /\ Unlock
              /\ call' = [call EXCEPT ![t].probe = "ok"]
              /\ pc' = [pc EXCEPT ![t] = "log_format"]
         ELSE /\ call' = [call EXCEPT ![t].probe = "fail", ![t].caller = "ensureConnection"]
              /\ pc' = [pc EXCEPT ![t] = "connect_dial"]
              /\ UNCHANGED <<connLock, crashed>>
    /\ UNCHANGED <<logger, useTLS, conn, result, socks, reachable>>

(***************************************************************************)
(* Log                                                                     *)
(***************************************************************************)
\* formatGELFMessage and the return of its error (129-132, 214-217); the
\* failed type assertion of the field processor panics.
LogFormat(t) ==
    /\ ~crashed
    /\ pc[t] = "log_format"
    /\ \E now \in Clock :
         LET g == formatGELFMessage(call[t].message, call[t].p.doc, Hostname, now)
         IN  CASE g.outcome = "panic" ->
                    /\ crashed' = TRUE
                    /\ pc' = [pc EXCEPT ![t] = "aborted"]
                    /\ UNCHANGED <<call, result>>
               [] g.outcome = "error" ->
                    /\ Return(t, WriteFailure("ValidationError"))
                    /\ UNCHANGED <<call, crashed>>
               [] OTHER ->
                    /\ call' = [call EXCEPT ![t].gelf = g.bytes]
                    /\ pc' = [pc EXCEPT ![t] = "log_lock"]
                    /\ UNCHANGED <<result, crashed>>
    /\ UNCHANGED <<logger, useTLS, conn, connLock, socks, reachable>>

\* Variant: Log writes without taking the lock.
LogLockSkipped(t) ==
    /\ ~crashed
    /\ pc[t] = "log_lock"
    /\ pc' = [pc EXCEPT ![t] = "log_write"]
    /\ UNCHANGED <<logger, useTLS, conn, connLock, call, result, socks, reachable, crashed>>

\* l.connLock.Lock() (133).
LogLock(t) ==
    /\ ~crashed
    /\ pc[t] = "log_lock"
    /\ connLock = Nil
    /\ connLock' = t
    /\ pc' = [pc EXCEPT ![t] = "log_write"]
    /\ UNCHANGED <<logger, useTLS, conn, call, result, socks, reachable, crashed>>

\* l.conn.Write(gelfMessage) starts, on the current handle (136, 142).
LogWriteBegin(t) ==
    /\ ~crashed
    /\ pc[t] = "log_write"
    /\ conn # Nil
    /\ call' = [call EXCEPT ![t].sock = conn, ![t].pwrites = @ + 1]
    /\ pc' = [pc EXCEPT ![t] = "write_wait"]
    /\ UNCHANGED <<logger, useTLS, conn, connLock, result, socks, reachable, crashed>>

\* The payload write returns.  nil: Log returns nil after the deferred Unlock
\* and Write returns len(p) (147, 218).  An error from the first write:
\* connect is called (137-138).  An error from the retry: it is returned
\* (143-145, 215-217).
LogWriteEnd(t) ==
    /\ ~crashed
    /\ pc[t] = "write_wait"
    /\ \E r \in WriteOutcomes(call[t].sock) :
         LET first == call[t].pwrites = 1
             c == IF first THEN [call[t] EXCEPT !.w1 = r] ELSE [call[t] EXCEPT !.w2 = r]
         IN  IF r = "ok"
             THEN /\ Unlock
                  /\ call' = [call EXCEPT ![t] = c]
                  /\ Return(t, WriteSuccess(call[t].p))
             ELSE IF first
             THEN /\ call' = [call EXCEPT ![t] = [c EXCEPT !.caller = "Log"]]
                  /\ pc' = [pc EXCEPT ![t] = "connect_dial"]
                  /\ UNCHANGED <<connLock, crashed, result>>
             ELSE /\ Unlock
                  /\ call' = [call EXCEPT ![t] = c]
                  /\ Return(t, WriteFailure("ConnectionError"))
    /\ UNCHANGED <<logger, useTLS, conn, socks, reachable>>

(***************************************************************************)
(* The collector and the network.                                          *)
(***************************************************************************)
\* The listener is closed.
ServerStop ==
    /\ reachable
    /\ reachable' = FALSE
    /\ UNCHANGED <<logger, useTLS, conn, connLock, pc, call, result, socks, crashed>>

\* Variant: a background loop redials as soon as the listener is back.
ServerStartRedials ==
    /\ ~reachable
    /\ reachable' = TRUE
    /\ IF logger = "ready" /\ Len(socks) < MaxSocks
       THEN /\ socks' = Append(socks, [open |-> TRUE, up |-> TRUE, tls |-> useTLS])
            /\ conn' = Len(socks) + 1
       ELSE UNCHANGED <<socks, conn>>
    /\ UNCHANGED <<logger, useTLS, connLock, pc, call, result, crashed>>

\* The listener is opened again.
ServerStart ==
    /\ ~reachable
    /\ reachable' = TRUE
    /\ UNCHANGED <<logger, useTLS, conn, connLock, pc, call, result, socks, crashed>>

\* The peer of socket c goes away: writes on it fail from now on.
ConnBreak(c) ==
    /\ socks[c].up
    /\ socks' = [socks EXCEPT ![c].up = FALSE]
    /\ UNCHANGED <<logger, useTLS, conn, connLock, pc, call, result, reachable, crashed>>

\* The steps of goroutine t.
ThreadStep(t) ==
    \/ NewLoggerCall(t)
    \/ ConnectDial(t)
    \/ ConnectLock(t)
    \/ ConnectAssign(t)
    \/ ConnectUnlock(t)
    \/ WriteCall(t)
    \/ EnsureLock(t)
    \/ EnsureCheck(t)
    \/ ProbeEnd(t)
    \/ LogFormat(t)
    \/ LogLock(t)
    \/ LogWriteBegin(t)
    \/ LogWriteEnd(t)

Next ==
    \/ \E t \in Threads : ThreadStep(t)
    \/ ServerStop
    \/ ServerStart
    \/ \E c \in DOMAIN socks : ConnBreak(c)

Spec == Init /\ [][Next]_vars

(***************************************************************************)
(* The constructors of package zaplogger and zerologger, each building a   *)
(* Logger with NewLogger and a logger around it: WrapperSpec.              *)
(***************************************************************************)
WrapperNext ==
    \/ \E t \in Threads :
          \/ WrapperCall(t)
          \/ ConnectDial(t)
          \/ ConnectLock(t)
          \/ ConnectAssign(t)
          \/ ConnectUnlock(t)
    \/ ServerStop
    \/ ServerStart

WrapperSpec == Init /\ [][WrapperNext]_vars

(***************************************************************************)
(* The encoder, the field processors and the level translators called      *)
(* directly, as the package tests call them, on field maps and level names *)
(* of every shape: EncoderSpec.  The functions keep no state between       *)
(* calls, so each goroutine makes one call.                                *)
(***************************************************************************)
\* The field maps: those of TestProcessZerologFields, and maps with reserved
\* wire keys, booleans, numbers, a msg key, and ill-typed time and level.
Events ==
    { EmptyMap,
      "level" :> Str("error") @@ "time" :> Float(1700000000)
          @@ "message" :> Str("This is a test log message"),
      "level" :> Str("error") @@ "time" :> Str("incorrect value")
          @@ "message" :> Str("This is a test log message"),
      "version" :> Str("9.9") @@ "host" :> Str("other") @@ "short_message" :> Str("s")
          @@ "full_message" :> Str("f") @@ "timestamp" :> Str("yesterday")
          @@ "level" :> Str("warn") @@ "message" :> Str("m"),
      "level" :> Str("debug") @@ "time" :> Float(1500000) @@ "message" :> Str("m")
          @@ "ok" :> Bool(TRUE) @@ "failed" :> Bool(FALSE) @@ "count" :> Float(3000)
          @@ "name" :> Str("true"),
      "message" :> Str("m") @@ "level" :> Float(5000),
      "level" :> Str("nonExistentLevel") @@ "message" :> Str("m"),
      "level" :> Str("fatal") @@ "msg" :> Str("zap message") @@ "time" :> Float(2000000),
      "time" :> Bool(TRUE) @@ "message" :> Str("m"),
      "level" :> Str("dpanic") @@ "caller" :> Str("main.go:10") }

\* The message handed to formatGELFMessage.
Messages == {"info", "m"}

\* The level names handed to the translators.
LevelNames ==
    {"trace", "debug", "info", "warn", "error", "dpanic", "panic", "fatal",
     "nonExistentLevel", ""}

EncoderInit ==
    /\ logger = "nil"
    /\ useTLS = FALSE
    /\ conn = Nil
    /\ connLock = Nil
    /\ pc = [t \in Threads |-> "idle"]
    /\ call = [t \in Threads |-> NoCall]
    /\ result = [t \in Threads |-> NoResult]
    /\ socks = << >>
    /\ reachable = FALSE
    /\ crashed = FALSE

\* How a direct call ends: it returns, with or without an error, or it panics.
CallEnds(t, outcome) ==
    IF outcome = "panic"
    THEN /\ crashed' = TRUE
         /\ pc' = [pc EXCEPT ![t] = "aborted"]
         /\ UNCHANGED result
    ELSE /\ Return(t, [n |-> 0, logger |-> FALSE,
                       err |-> IF outcome = "ok" THEN "" ELSE "ValidationError"])
         /\ UNCHANGED crashed

\* formatGELFMessage(message, fields, host) (gelflogger.go 158-188).
FormatCall(t) ==
    /\ ~crashed
    /\ pc[t] = "idle"
    /\ call[t].op = "none"
    /\ \E fields \in Events, message \in Messages, now \in Clock :
         LET g == formatGELFMessage(message, fields, Hostname, now)
         IN  /\ call' = [call EXCEPT ![t] =
                           [NoCall EXCEPT !.op = "formatGELFMessage", !.fields = fields,
                                          !.message = message, !.now = now,
                                          !.gelf = g.bytes]]
             /\ CallEnds(t, g.outcome)
    /\ UNCHANGED <<logger, useTLS, conn, connLock, socks, reachable>>

\* ProcessZerologFields(fields) or ProcessZapLoggerFields(fields).
ProcessCall(t) ==
    /\ ~crashed
    /\ pc[t] = "idle"
    /\ call[t].op = "none"
    /\ \E fields \in Events, now \in Clock,
          op \in {"ProcessZerologFields", "ProcessZapLoggerFields"} :
         LET r == IF op = "ProcessZerologFields"
                  THEN ProcessZerologFields(fields, now)
                  ELSE ProcessZapLoggerFields(fields, now)
         IN  /\ call' = [call EXCEPT ![t] =
                           [NoCall EXCEPT !.op = op, !.fields = fields, !.now = now,
                                          !.proc = r]]
             /\ CallEnds(t, r.outcome)
    /\ UNCHANGED <<logger, useTLS, conn, connLock, socks, reachable>>

\* ConvertZerologLevelToGraylog(level) or ConvertZapLogLevelToGraylog(level).
ConvertCall(t) ==
    /\ ~crashed
    /\ pc[t] = "idle"
    /\ call[t].op = "none"
    /\ \E level \in LevelNames,
          op \in {"ConvertZerologLevelToGraylog", "ConvertZapLogLevelToGraylog"} :
         LET g == IF op = "ConvertZerologLevelToGraylog"
                  THEN ConvertZerologLevelToGraylog(level)
                  ELSE ConvertZapLogLevelToGraylog(level)
         IN  /\ call' = [call EXCEPT ![t] =
                           [NoCall EXCEPT !.op = op, !.level = level, !.graylog = g]]
             /\ CallEnds(t, "ok")
    /\ UNCHANGED <<logger, useTLS, conn, connLock, socks, reachable>>

EncoderNext ==
    \E t \in Threads :
        \/ FormatCall(t)
        \/ ProcessCall(t)
        \/ ConvertCall(t)

EncoderSpec == EncoderInit /\ [][EncoderNext]_vars

(***************************************************************************)
(* Properties.                                                             *)
(***************************************************************************)
\* The calls of Write that have returned.
Returned(t) == pc[t] = "idle" /\ call[t].op = "Write"

\* The event has a time the field processor accepts / a level it can assert.
TimeOk(doc) == "time" \notin DOMAIN doc \/ doc["time"].t = "float64"

LevelOk(doc) == "level" \notin DOMAIN doc \/ doc["level"].t = "string"

\* The call found the collector live: no probe or payload write failed.
FoundLive(t) == call[t].probe = "ok" /\ call[t].w1 # "fail"

\* C1 as written: every returned Write of a buffer that decodes to an object
\* with a string message, on a live connection, returned (len(p), nil).
C1_AsWritten ==
    \A t \in Threads :
        (Returned(t) /\ call[t].p.valid /\ HasStringMessage(call[t].p.doc) /\ FoundLive(t))
            => (result[t].n = call[t].p.len /\ result[t].err = "")

\* C1 amended: every returned Write of a buffer that decodes to an object with
\* a string message, a time that is absent or a number and a level that is
\* absent or a string, on a live connection, returned nil and the length of
\* the input buffer.
C1_WriteReturnsInputLength ==
    \A t \in Threads :
        (Returned(t) /\ call[t].p.valid /\ HasStringMessage(call[t].p.doc)
            /\ TimeOk(call[t].p.doc) /\ LevelOk(call[t].p.doc) /\ FoundLive(t))
            => /\ result[t].err = ""
               /\ result[t].n = call[t].p.len
               /\ call[t].w1 = "ok"

\* A successful Write whose encoded record and input differ in length.
C1_Witness ==
    \E t \in Threads :
        /\ Returned(t) /\ FoundLive(t) /\ result[t].err = ""
        /\ call[t].w1 = "ok"
        /\ call[t].gelf.len # call[t].p.len
        /\ JsonLen(call[t].p.doc) # call[t].p.len
        /\ result[t].n = call[t].p.len

\* A step of the call failed: decoding, the message, ensureConnection or the
\* reconnect of Log (a failed dial), field processing, or the retried write.
StepFailed(t) ==
    \/ ~call[t].p.valid
    \/ ~HasStringMessage(call[t].p.doc)
    \/ call[t].dial = "fail"
    \/ call[t].w2 = "fail"
    \/ \E now \in Clock :
          formatGELFMessage(call[t].message, call[t].p.doc, Hostname, now).outcome = "error"

\* C2: a returned Write whose step failed returned (0, err) with err non-nil;
\* no returned Write has a count with an error, or nil after a failed step.
C2_FailureReturnsZero ==
    \A t \in Threads :
        Returned(t) =>
            /\ StepFailed(t) => (result[t].n = 0 /\ result[t].err # "")
            /\ result[t].err # "" => result[t].n = 0
            /\ result[t].err = "" => ~StepFailed(t)

\* Writes that failed at field processing and at the reconnect.
C2_Witness ==
    /\ \E t \in Threads :
          Returned(t) /\ call[t].probe = "ok" /\ ~TimeOk(call[t].p.doc)
            /\ result[t].n = 0 /\ result[t].err = "ValidationError"
    /\ \E t \in Threads :
          Returned(t) /\ call[t].w1 = "fail" /\ call[t].dial = "fail"
            /\ result[t].n = 0 /\ result[t].err = "ConnectionError"

\* C3: a Write of a valid event that found the connection dead and dialed a
\* fresh one, the collector being reachable again, goes on to install the
\* fresh connection in place of the dead one: the step that does it is
\* possible.
C3_ReconnectRecovers ==
    \A t \in Threads :
        (call[t].op = "Write" /\ call[t].dial = "ok" /\ conn # call[t].newConn
            /\ TimeOk(call[t].p.doc) /\ LevelOk(call[t].p.doc) /\ ~crashed)
            => (ENABLED ConnectLock(t) \/ ENABLED ConnectAssign(t))

\* C4: a Write in which a probe or payload write failed and the redial failed
\* has returned (0, ConnectionError) after that one dial; no Write dials twice.
C4_OneFailedReconnect ==
    \A t \in Threads :
        call[t].op = "Write" =>
            /\ call[t].dials <= 1
            /\ call[t].dial = "fail" =>
                  /\ Returned(t)
                  /\ result[t].n = 0 /\ result[t].err = "ConnectionError"
                  /\ call[t].dials = 1
                  /\ (call[t].probe = "fail" \/ call[t].w1 = "fail")

\* The server is gone: the probe failed, the redial failed.
C4_Witness ==
    \E t \in Threads :
        /\ Returned(t) /\ call[t].probe = "fail" /\ call[t].dial = "fail"
        /\ ~reachable /\ result[t].n = 0

\* C5: a Log whose first payload write failed and whose dial succeeded goes
\* on to write the payload a second time: until then it has a next step.
C5_RetryAfterReconnect ==
    \A t \in Threads :
        (call[t].caller = "Log" /\ call[t].w1 = "fail" /\ call[t].dial = "ok"
            /\ call[t].pwrites < 2 /\ ~crashed)
            => ENABLED ThreadStep(t)

\* The places where a goroutine waits for connLock.
LockWaits == {"ensure_lock", "log_lock", "connect_lock"}

\* C6: no call is blocked for good: whenever a goroutine waits for the lock,
\* the lock is free or its holder is running, not itself waiting for it.
C6_EveryCallReturns ==
    \A t \in Threads :
        (pc[t] \in LockWaits /\ ~crashed)
            => (connLock = Nil \/ pc[connLock] \notin LockWaits)

\* Goroutines with a socket write in flight, or swapping the handle.
Writing == {t \in Threads : pc[t] \in {"probe_wait", "write_wait"}}

Swapping == {t \in Threads : pc[t] \in {"connect_assign", "connect_unlock"}}

\* C7: at most one write is in flight, the writer holds the lock, the handle
\* is assigned by the holder of the lock only, and no write overlaps a swap.
C7_WritesSerialized ==
    /\ Cardinality(Writing) <= 1
    /\ Cardinality(Swapping) <= 1
    /\ \A t \in Writing \cup Swapping : connLock = t
    /\ Writing = {} \/ Swapping = {}

\* One goroutine writes while another waits for the lock.
C7_Witness ==
    \E t, u \in Threads :
        /\ pc[t] = "write_wait"
        /\ pc[u] \in {"ensure_lock", "log_lock"}

\* C8: the Session never has two open connections.
C8_OneOpenConnection ==
    Cardinality({c \in DOMAIN socks : socks[c].open}) <= 1

\* C9: an ensureConnection whose redial succeeded returns nil: it is on its
\* way out of connect, not waiting in it.
C9_EnsureSucceedsAfterRedial ==
    \A t \in Threads :
        (call[t].caller = "ensureConnection" /\ call[t].dial = "ok" /\ ~crashed)
            => pc[t] \in {"connect_assign", "connect_unlock", "log_format"}
               \/ (pc[t] = "connect_lock" /\ connLock = Nil)

\* C10: NewLogger dials once; it has returned the Logger, holding the dialed
\* connection (TLS-wrapped exactly when useTLS), if and only if the dial
\* succeeded, and the dial error and no Logger otherwise.
C10_NewLoggerDialsOnce ==
    \A t \in Threads :
        call[t].op = "NewLogger" =>
            /\ call[t].dials <= 1
            /\ pc[t] = "idle" =>
                  /\ call[t].dials = 1
                  /\ result[t].logger <=> (call[t].dial = "ok")
                  /\ result[t].logger =>
                        /\ result[t].err = ""
                        /\ logger = "ready"
                        /\ conn = call[t].newConn
                        /\ conn \in DOMAIN socks
                        /\ socks[conn].tls = useTLS
                  /\ ~result[t].logger =>
                        /\ result[t].err = "ConnectionError"
                        /\ call[t].newConn = Nil

\* NewLogger returned a Logger over a TLS-wrapped connection.
C10_Witness ==
    \E t \in Threads :
        /\ call[t].op = "NewLogger" /\ pc[t] = "idle"
        /\ result[t].logger /\ useTLS /\ socks[conn].tls

\* The session is wedged: a goroutine waits in connect for the lock it holds.
Wedged == \E t \in Threads : pc[t] = "connect_lock" /\ connLock = t

\* C11: once a Write has surfaced a failed reconnect as an error, the Session
\* stays usable: it is never in a state where no later call can get the lock
\* and reconnect.
C11_FailedStateRetries ==
    \A u \in Threads :
        (Returned(u) /\ call[u].dial = "fail" /\ result[u].err = "ConnectionError")
            => ~Wedged

\* C12: a Write returned success only after a payload write returned nil, the
\* payload was then accepted exactly once, the second write is issued only
\* after the first one failed, and a Write that returned an error had no
\* payload write accepted.
C12_PayloadAcceptedOnce ==
    \A t \in Threads :
        call[t].op = "Write" =>
            /\ call[t].pwrites <= 2
            /\ call[t].pwrites = 2 => call[t].w1 = "fail"
            /\ call[t].w1 = "ok" => call[t].w2 = "none"
            /\ (Returned(t) /\ result[t].err = "") =>
                  /\ call[t].gelf.valid
                  /\ (call[t].w1 = "ok" /\ call[t].pwrites = 1)
                       \/ (call[t].w1 = "fail" /\ call[t].w2 = "ok")
            /\ (Returned(t) /\ result[t].err # "") =>
                  (call[t].w1 # "ok" /\ call[t].w2 # "ok")

\* One Write delivered its payload with one write; another returned an error
\* after its only payload write failed.
C12_Witness ==
    /\ \E t \in Threads :
          Returned(t) /\ result[t].err = "" /\ call[t].w1 = "ok" /\ call[t].pwrites = 1
    /\ \E t \in Threads :
          Returned(t) /\ result[t].err # "" /\ call[t].w1 = "fail" /\ call[t].pwrites = 1

\* The decoded input carries a message of type string.
MessageIsString(doc) ==
    /\ "message" \in DOMAIN doc
    /\ doc["message"].t = "string"

\* The input does not decode, or its message is absent or not a string.
Rejected(p) == ~p.valid \/ ~MessageIsString(p.doc)

\* C13: a Write whose input does not decode, or has no string message,
\* returns (0, error) in the step that starts it, and that step leaves the
\* Session alone: the lock, the handle, the sockets; the call made no probe,
\* no dial and no payload write.
C13_RejectedBeforeSession ==
    [][\A t \in Threads :
          (pc[t] = "idle" /\ call'[t] # call[t] /\ call'[t].op = "Write"
              /\ Rejected(call'[t].p))
              => /\ pc'[t] = "idle"
                 /\ result'[t].n = 0
                 /\ result'[t].err \in {"DecodeError", "ValidationError"}
                 /\ UNCHANGED <<logger, useTLS, conn, connLock, socks, crashed>>
                 /\ call'[t].probe = "none"
                 /\ call'[t].dials = 0
                 /\ call'[t].pwrites = 0]_vars

\* A Write was rejected for its absent message while another goroutine holds
\* the lock with a payload write in flight.
C13_Witness ==
    \E t, u \in Threads :
        /\ Returned(t) /\ call[t].p.valid /\ "message" \notin DOMAIN call[t].p.doc
        /\ result[t].n = 0 /\ result[t].err = "ValidationError"
        /\ connLock = u /\ u # t /\ pc[u] = "write_wait"

\* C24: the handle is assigned, sockets are dialed and payloads are written
\* only by a goroutine inside connect or Log; a step that leaves every
\* goroutine outside a call leaves the Session as it is; the counts of a
\* returned call never grow, so its payload is not written again.
C24_NoBackgroundActivity ==
    [][/\ conn' # conn => \E t \in Threads : pc[t] = "connect_assign"
       /\ Len(socks') # Len(socks) => \E t \in Threads : pc[t] = "connect_dial"
       /\ (\A t \in Threads : pc[t] = "idle" /\ pc'[t] = "idle") =>
             /\ UNCHANGED <<logger, useTLS, conn, connLock>>
             /\ Len(socks') = Len(socks)
       /\ \A t \in Threads :
             /\ call'[t].dials > call[t].dials => pc[t] = "connect_dial"
             /\ call'[t].pwrites > call[t].pwrites => pc[t] = "log_write"
             /\ (pc[t] = "idle" /\ call'[t] # call[t]) =>
                   (call'[t].pwrites = 0 /\ call'[t].dials = 0)]_vars

\* A Write returned undelivered (its payload write and its redial failed),
\* the collector is reachable again, no call is in progress, and the handle
\* still names the dead connection.
C24_Witness ==
    /\ \A t \in Threads : pc[t] = "idle"
    /\ \E t \in Threads :
          Returned(t) /\ call[t].w1 = "fail" /\ call[t].dial = "fail"
    /\ reachable
    /\ conn \in DOMAIN socks
    /\ ~socks[conn].up
    /\ Len(socks) = 1

\* C25: no goroutine waits for connLock while it holds it.
C25_NoSelfLock ==
    \A t \in Threads : pc[t] \in LockWaits => connLock # t

\* C26: no call of Write is aborted by a panic of the field processor.
C26_WriteNeverAborts ==
    \A t \in Threads : call[t].op = "Write" => (pc[t] # "aborted" /\ ~crashed)

\* C27: a payload write is started only for an event that decoded, has a
\* string message and passed field processing and encoding, by the holder of
\* the lock; a Log whose field processing fails returns the error in that
\* step, without taking the lock, changing the handle or writing.
C27_NoPayloadForRejectedEvent ==
    [][\A t \in Threads :
          /\ call'[t].pwrites > call[t].pwrites =>
                /\ call[t].op = "Write"
                /\ call[t].p.valid
                /\ MessageIsString(call[t].p.doc)
                /\ TimeOk(call[t].p.doc) /\ LevelOk(call[t].p.doc)
                /\ call[t].gelf.valid
                /\ call[t].gelf.len > 0
                /\ connLock = t
          /\ (pc[t] = "log_format" /\ ~TimeOk(call[t].p.doc) /\ pc'[t] # pc[t]) =>
                /\ pc'[t] = "idle"
                /\ result'[t].n = 0 /\ result'[t].err = "ValidationError"
                /\ call'[t].pwrites = 0 /\ call'[t].gelf = NoBytes
                /\ UNCHANGED <<conn, connLock, socks>>]_vars

\* A Write of an event with a non-numeric time returned its error after a
\* successful probe, with no payload write, while another goroutine holds
\* the lock.
C27_Witness ==
    \E t, u \in Threads :
        /\ Returned(t) /\ ~TimeOk(call[t].p.doc) /\ call[t].probe = "ok"
        /\ result[t].err = "ValidationError" /\ call[t].pwrites = 0
        /\ u # t /\ connLock = u

\* C28: once NewLogger has returned the Logger its handle names a dialed
\* connection; every probe and payload write in flight is on one; a call
\* whose redial failed left the handle it used in place.
C28_HandleNeverNil ==
    /\ logger = "ready" => (conn # Nil /\ conn \in DOMAIN socks)
    /\ \A t \in Threads :
          /\ pc[t] \in {"probe_wait", "write_wait"} =>
                (call[t].sock # Nil /\ call[t].sock \in DOMAIN socks)
          /\ (Returned(t) /\ call[t].dial = "fail") =>
                (call[t].sock # Nil /\ conn = call[t].sock)

\* A redial failed and the handle still names the dead connection.
C28_Witness ==
    \E t \in Threads :
        /\ Returned(t) /\ call[t].dial = "fail"
        /\ logger = "ready" /\ conn \in DOMAIN socks /\ ~socks[conn].up

(***************************************************************************)
(* Properties of the encoder, the field processors and the translators     *)
(* (EncoderSpec).                                                          *)
(***************************************************************************)
ReservedKeys ==
    {"version", "host", "short_message", "full_message", "timestamp", "level"}

Consumed == {"level", "time", "message"}

Processors == {"ProcessZerologFields", "ProcessZapLoggerFields"}

Translators == {"ConvertZerologLevelToGraylog", "ConvertZapLogLevelToGraylog"}

\* formatGELFMessage returned a wire record to goroutine t.
Formatted(t) ==
    /\ call[t].op = "formatGELFMessage"
    /\ pc[t] = "idle"
    /\ result[t].err = ""
    /\ call[t].gelf.valid

\* A field processor returned without error to goroutine t.
Processed(t) ==
    /\ call[t].op \in Processors
    /\ pc[t] = "idle"
    /\ call[t].proc.outcome = "ok"

\* C14: every wire record has the six reserved keys, with version "1.1", the
\* host and the supplied message, a text full_message, a number timestamp and
\* an integer level; an event field named like a reserved key does not
\* replace it, its value is found under the underscore-prefixed name.
C14_ReservedKeysKept ==
    \A t \in Threads :
        Formatted(t) =>
            LET w == call[t].gelf.doc
                f == call[t].fields
            IN  /\ ReservedKeys \subseteq DOMAIN w
                /\ w["version"] = Str("1.1")
                /\ w["host"] = Str(Hostname)
                /\ w["short_message"] = Str(call[t].message)
                /\ w["full_message"].t = "string"
                /\ w["full_message"].doc # EmptyMap
                /\ w["timestamp"].t = "float64"
                /\ w["level"].t = "int"
                /\ \A k \in (ReservedKeys \ {"level"}) \cap DOMAIN f :
                      w[k] # f[k] /\ w["_" \o k] = f[k]

\* A wire record of an event that has every reserved key.
C14_Witness ==
    \E t \in Threads :
        /\ Formatted(t)
        /\ ReservedKeys \subseteq DOMAIN call[t].fields
        /\ call[t].gelf.doc["version"] = Str("1.1")
        /\ call[t].gelf.doc["_version"] = Str("9.9")

C16_BooleansAsStrings ==
    \A t \in Threads :
        Formatted(t) =>
            LET w == call[t].gelf.doc
                f == call[t].fields
            IN  \A k \in (DOMAIN f) \ Consumed :
                    IF f[k].t = "bool"
                    THEN w["_" \o k] = Str(IF f[k] = Bool(TRUE) THEN "true" ELSE "false")
                    ELSE w["_" \o k] = f[k]

\* A wire record with a true, a false, a number and a string "true".
C16_Witness ==
    \E t \in Threads :
        /\ Formatted(t)
        /\ {"ok", "failed", "count", "name"} \subseteq DOMAIN call[t].fields
        /\ call[t].fields["ok"] = Bool(TRUE)
        /\ call[t].fields["failed"] = Bool(FALSE)
        /\ call[t].gelf.doc["_ok"] = Str("true")
        /\ call[t].gelf.doc["_failed"] = Str("false")
        /\ call[t].gelf.doc["_count"] = Float(3000)
        /\ call[t].gelf.doc["_name"] = Str("true")

C18_AsWritten ==
    \A t \in Threads :
        Processed(t) =>
            LET f == call[t].fields
                r == call[t].proc
            IN  /\ (DOMAIN r.fullMessage.doc) \cap Consumed = {}
                /\ r.fields = [k \in (DOMAIN f) \ Consumed |-> f[k]]

\* C18 amended: a successful field processor serializes the map first, with
\* its time, its numeric level and its message, and then removes level, time
\* and message from the map: the returned bytes hold time and level and every
\* other event field, message included, and the map afterwards is the event
\* without the three keys.
C18_SerializedThenRemoved ==
    \A t \in Threads :
        Processed(t) =>
            LET f == call[t].fields
                r == call[t].proc
                full == r.fullMessage.doc
            IN  /\ r.fullMessage.valid
                /\ DOMAIN full = (DOMAIN f) \cup {"time", "level"}
                /\ \A k \in (DOMAIN f) \ {"time", "level"} : full[k] = f[k]
                /\ full["level"] = GoInt(r.graylogLevel)
                /\ r.fields = [k \in (DOMAIN f) \ Consumed |-> f[k]]

\* Each processor returned bytes that hold the message it removed from the map.
C18_Witness ==
    \A op \in Processors :
        \E t \in Threads :
            /\ Processed(t) /\ call[t].op = op
            /\ "message" \in DOMAIN call[t].fields
            /\ "message" \in DOMAIN call[t].proc.fullMessage.doc
            /\ "message" \notin DOMAIN call[t].proc.fields
            /\ call[t].proc.fields # EmptyMap

\* C19: a call of a field processor ends with an error exactly when time is
\* present and not a number, and succeeds otherwise.
C19_ErrorIffTimeNotNumeric ==
    \A t \in Threads :
        call[t].op \in Processors =>
            LET f == call[t].fields
                r == call[t].proc
                badTime == "time" \in DOMAIN f /\ f["time"].t # "float64"
            IN  /\ r.outcome = "error" <=> badTime
                /\ ~badTime => r.outcome = "ok"

\* The level names each parser knows.
ZerologNames == {"trace", "debug", "info", "warn", "error", "fatal", "panic", ""}

ZapNames == {"debug", "info", "warn", "error", "dpanic", "panic", "fatal", ""}

\* C20: a level translator returns a severity in 0..7, the same for the same
\* name: 7 for debug, 6 for info, 4 for warn, 6 for a name its parser does not
\* know; a processed event without level has severity 6; the level of a wire
\* record is an integer in 0..7.
C20_SeverityInRange ==
    \A t \in Threads :
        /\ call[t].op \in Translators =>
              /\ call[t].graylog \in 0..7
              /\ call[t].level = "debug" => call[t].graylog = 7
              /\ call[t].level = "info" => call[t].graylog = 6
              /\ call[t].level = "warn" => call[t].graylog = 4
              /\ (call[t].op = "ConvertZerologLevelToGraylog"
                    /\ call[t].level \notin ZerologNames) => call[t].graylog = 6
              /\ (call[t].op = "ConvertZapLogLevelToGraylog"
                    /\ call[t].level \notin ZapNames) => call[t].graylog = 6
              /\ \A u \in Threads :
                    (call[u].op = call[t].op /\ call[u].level = call[t].level)
                        => call[u].graylog = call[t].graylog
        /\ Processed(t) =>
              /\ call[t].proc.graylogLevel \in 0..7
              /\ "level" \notin DOMAIN call[t].fields => call[t].proc.graylogLevel = 6
        /\ Formatted(t) =>
              /\ call[t].gelf.doc["level"].t = "int"
              /\ call[t].gelf.doc["level"].n \in 0..7
              /\ "level" \notin DOMAIN call[t].fields
                    => call[t].gelf.doc["level"] = GoInt(6)

\* An unknown name was translated to 6, and an event without level was
\* encoded with level 6.
C20_Witness ==
    /\ \E t \in Threads :
          /\ call[t].op = "ConvertZerologLevelToGraylog"
          /\ call[t].level = "nonExistentLevel" /\ call[t].graylog = 6
    /\ \E t \in Threads :
          /\ Formatted(t) /\ "level" \notin DOMAIN call[t].fields
          /\ call[t].gelf.doc["level"] = GoInt(6)

\* C21: a field named msg is treated like message: no wire record has an
\* additional field _msg.
C21_MsgNotEmitted ==
    \A t \in Threads :
        Formatted(t) => "_msg" \notin DOMAIN call[t].gelf.doc

\* C29: a field processor that returned an error left the map as it got it;
\* one that succeeded left the map without level, time and message and
\* otherwise as it got it.
C29_MapFrame ==
    \A t \in Threads :
        (call[t].op \in Processors /\ pc[t] = "idle") =>
            LET f == call[t].fields
                r == call[t].proc
            IN  /\ r.outcome \in {"ok", "error"}
                /\ r.outcome = "error" => r.fields = f
                /\ r.outcome = "ok" =>
                      /\ DOMAIN r.fields = (DOMAIN f) \ Consumed
                      /\ \A k \in DOMAIN r.fields : r.fields[k] = f[k]

\* One processor failed on a map without level and left it alone; the other
\* succeeded on a map without time and without level and left no trace of
\* the time and level it had inserted.
C29_Witness ==
    /\ \E t \in Threads :
          /\ call[t].op = "ProcessZapLoggerFields" /\ pc[t] = "idle"
          /\ call[t].proc.outcome = "error"
          /\ "level" \notin DOMAIN call[t].fields
          /\ call[t].proc.fields = call[t].fields
    /\ \E t \in Threads :
          /\ call[t].op = "ProcessZerologFields" /\ pc[t] = "idle"
          /\ call[t].proc.outcome = "ok"
          /\ call[t].fields = EmptyMap
          /\ call[t].proc.fields = EmptyMap

\* The event has a numeric time.
HasNumericTime(f) == "time" \in DOMAIN f /\ f["time"].t = "float64"

\* C30: for an event with a numeric time, the timestamp of the wire record,
\* and the timestamp a field processor returns, is that time divided by
\* 1000, exactly.
C30_TimestampInSeconds ==
    \A t \in Threads :
        /\ (Formatted(t) /\ HasNumericTime(call[t].fields)) =>
              /\ call[t].gelf.doc["timestamp"].t = "float64"
              /\ call[t].fields["time"].n % 1000 = 0
              /\ call[t].gelf.doc["timestamp"].n = call[t].fields["time"].n \div 1000
        /\ (Processed(t) /\ HasNumericTime(call[t].fields)) =>
              call[t].proc.glTimeStamp = call[t].fields["time"].n \div 1000

\* An event of 1500 ms was encoded with timestamp 1.5, and a processor
\* returned 2 for an event of 2000 ms.
C30_Witness ==
    /\ \E t \in Threads :
          /\ Formatted(t) /\ HasNumericTime(call[t].fields)
          /\ call[t].fields["time"] = Float(1500000)
          /\ call[t].gelf.doc["timestamp"] = Float(1500)
    /\ \E t \in Threads :
          /\ Processed(t) /\ HasNumericTime(call[t].fields)
          /\ call[t].fields["time"] = Float(2000000)
          /\ call[t].proc.glTimeStamp = 2000

(***************************************************************************)
(* Properties of the constructors (WrapperSpec).                           *)
(***************************************************************************)
\* The constructor op returned a logger to goroutine t.
Built(t, op) == call[t].op = op /\ pc[t] = "idle" /\ result[t].logger

\* C22: the logger NewZapLogger returns tees the caller's cores followed by
\* the GELF core, and the GELF core alone when no core was passed.
C22_ZapTeeHasGelfCore ==
    \A t \in Threads :
        Built(t, "NewZapLogger") => call[t].dests = call[t].others \o <<"gelf">>

\* C23: the GELF writer is among the writers of the logger NewZeroLogger
\* returns, whatever writers were passed, none included.
C23_ZerologHasGelfWriter ==
    \A t \in Threads :
        Built(t, "NewZeroLogger") =>
            \E i \in DOMAIN call[t].dests : call[t].dests[i] = "gelf"

====
